---- MODULE Spec2Model ----
(***************************************************************************)
(* A model of the expense tracker of src/main.py: an embedded SQLite store *)
(* with an expenses table and a users table, and the six tool handlers     *)
(* add_expense, list_expenses, summarize, edit_expense, delete_expense and *)
(* add_credit, plus init_db, which runs at every process start.            *)
(*                                                                         *)
(* Spec runs init_db and the expense tools one call at a time (each action *)
(* is one whole handler, from connect to return); SpecStore does the same  *)
(* for init_db, add_credit and add_expense, so that both tables fill.      *)
(* SpecConc runs add_credit calls on separate connections, one SQL         *)
(* statement per step, under SQLite's write lock.  SpecTxn does so for     *)
(* calls of all six tools, with SQLite's read locks and with calls that    *)
(* are interrupted; SpecReturn is SpecTxn without interruptions, under     *)
(* fairness.  All are built from the same statement operators (Sql...).    *)
(***************************************************************************)
EXTENDS Integers, Sequences, FiniteSets, TLC

VARIABLES
    db,     \* the committed database file: expenses, users, sqlite_sequence
    ret,    \* Spec, SpecStore: the call made last and the dict it returned
    hist,   \* Spec, SpecStore: the ids add_expense returned and delete_expense removed
    pc,     \* SpecConc, SpecTxn: where each connection's handler stands
    call,   \* SpecConc, SpecTxn: the arguments of each connection's call
    tx,     \* SpecConc, SpecTxn: the database as seen inside each connection's open transaction
    row,    \* SpecConc, SpecTxn: what each connection's cursor holds (row fetched, lastrowid, rowcount)
    res,    \* SpecConc, SpecTxn: the dict each handler returned
    lock    \* SpecConc, SpecTxn: SQLite's write lock

vars == <<db, ret, hist, pc, call, tx, row, res, lock>>
serialVars == <<db, ret, hist>>
concVars == <<pc, call, tx, row, res, lock>>

(***************************************************************************)
(* Bounds of the model.                                                    *)
(***************************************************************************)
\* expense ids the store may hand out (add_expense is disabled beyond it)
MaxId == 2
\* user rows the users table may hold
MaxUsers == 3
\* largest credit a user may reach (add_credit is disabled beyond it)
MaxCredit == 10
\* number of concurrent calls (connections) in SpecConc, SpecTxn and SpecReturn
NCalls == 3

(***************************************************************************)
(* Python and SQL values.                                                  *)
(***************************************************************************)
\* Python's None, which sqlite3 binds as SQL NULL
None == "<None>"
\* None where a date is expected (dates are sequences of characters)
NoneDate == <<None>>

\* A Python argument that stands for an amount: a number, a string or None.
\* Strings are sequences of one-character strings, so that parsing and
\* comparing them is modelled by what it does.
PyNum(n) == [kind |-> "num", n |-> n, s |-> <<>>]
PyStr(s) == [kind |-> "str", n |-> 0, s |-> s]
PyNone == [kind |-> "none", n |-> 0, s |-> <<>>]

Digit(c) ==
    CASE c = "0" -> 0 [] c = "1" -> 1 [] c = "2" -> 2 [] c = "3" -> 3
      [] c = "4" -> 4 [] c = "5" -> 5 [] c = "6" -> 6 [] c = "7" -> 7
      [] c = "8" -> 8 [] c = "9" -> 9 [] OTHER -> -1

IsDigits(s) == Len(s) > 0 /\ \A i \in 1..Len(s) : Digit(s[i]) >= 0

RECURSIVE DigitsValue(_)
DigitsValue(s) ==
    IF s = <<>> THEN 0
    ELSE 10 * DigitsValue(SubSeq(s, 1, Len(s) - 1)) + Digit(s[Len(s)])

\* float(amount): a number converts to itself; a string converts when it is an
\* optionally signed decimal literal (the model's literals are integers, and
\* every amount is small enough to be an exact double); any other string
\* raises ValueError and None raises TypeError.  The literals float() reads
\* as a non-finite value ("nan", "inf") are not among the model's amounts.
\* float() that never raises: an unparseable amount counts as 0.
FloatAcceptAll(x) == [ok |-> TRUE, v |-> IF x.kind = "num" THEN x.n ELSE 0, err |-> ""]
float(x) ==
    CASE x.kind = "num" -> [ok |-> TRUE, v |-> x.n, err |-> ""]
      [] x.kind = "str" ->
            IF IsDigits(x.s)
            THEN [ok |-> TRUE, v |-> DigitsValue(x.s), err |-> ""]
            ELSE IF Len(x.s) > 1 /\ Head(x.s) = "-" /\ IsDigits(Tail(x.s))
            THEN [ok |-> TRUE, v |-> 0 - DigitsValue(Tail(x.s)), err |-> ""]
            ELSE [ok |-> FALSE, v |-> 0, err |-> "could not convert string to float"]
      [] OTHER -> [ok |-> FALSE, v |-> 0, err |-> "float() argument must be a string or a real number"]

\* The byte order of the characters dates are made of (SQLite's BINARY collation).
Ord(c) == IF c = "-" THEN 45 ELSE IF Digit(c) >= 0 THEN 48 + Digit(c) ELSE 97

\* a < b and a <= b as SQLite compares TEXT: byte by byte, a prefix first.
RECURSIVE TextLt(_, _)
TextLt(a, b) ==
    IF b = <<>> THEN FALSE
    ELSE IF a = <<>> THEN TRUE
    ELSE IF Ord(Head(a)) # Ord(Head(b)) THEN Ord(Head(a)) < Ord(Head(b))
    ELSE TextLt(Tail(a), Tail(b))

TextLeq(a, b) == a = b \/ TextLt(a, b)

\* A range that leaves its upper bound out.
BetweenHalfOpen(x, lo, hi) == TextLeq(lo, x) /\ TextLt(x, hi)
\* x BETWEEN lo AND hi
Between(x, lo, hi) == TextLeq(lo, x) /\ TextLeq(x, hi)

Max(a, b) == IF a >= b THEN a ELSE b

RECURSIVE SetMax(_)
SetMax(S) == IF S = {} THEN 0 ELSE LET x == CHOOSE x \in S : TRUE IN Max(x, SetMax(S \ {x}))

(***************************************************************************)
(* The database and its SQL statements.  A database value is a record      *)
(* [expenses, seq, users]: the rows of the expenses table, the value       *)
(* sqlite_sequence holds for it (AUTOINCREMENT), and the rows of the users *)
(* table.  Each statement operator maps a database value to the value      *)
(* after the statement, inside the connection's transaction.               *)
(***************************************************************************)
EmptyDb == [expenses |-> {}, seq |-> 0, users |-> {}]

Ids(d) == {e.id : e \in d.expenses}

\* The rowid of a column declared without AUTOINCREMENT: one more than the
\* largest rowid now in the table.
NextRowidNoAutoincrement(d) == SetMax(Ids(d)) + 1
\* id INTEGER PRIMARY KEY AUTOINCREMENT: one more than the largest rowid the
\* table has ever held, which sqlite_sequence remembers.
NextRowid(d) == Max(d.seq, SetMax(Ids(d))) + 1

\* INSERT INTO expenses (date, amount, category, subcategory, note) VALUES (...)
\* date and category are TEXT NOT NULL: a None aborts the statement (the
\* amount is a float by then, and subcategory and note may be NULL).
NotNullError(date, category) ==
    IF date = NoneDate THEN "NOT NULL constraint failed: expenses.date"
    ELSE IF category = None THEN "NOT NULL constraint failed: expenses.category"
    ELSE ""

SqlInsertExpense(d, date, amount, category, subcategory, note) ==
    IF NotNullError(date, category) # ""
    THEN [err |-> NotNullError(date, category), db |-> d, lastrowid |-> 0]
    ELSE LET id == NextRowid(d)
             new == [id |-> id, date |-> date, amount |-> amount, category |-> category,
                     subcategory |-> subcategory, note |-> note]
         IN  [err |-> "",
              db |-> [d EXCEPT !.expenses = @ \cup {new}, !.seq = id],
              lastrowid |-> id]

\* The UPDATE without its WHERE clause.
SqlUpdateExpenseAll(d, id, date, amount, category, subcategory, note) ==
    [err |-> "",
     db |-> [d EXCEPT !.expenses =
                {[e EXCEPT !.date = date, !.amount = amount, !.category = category,
                           !.subcategory = subcategory, !.note = note] : e \in @}],
     rowcount |-> Cardinality(d.expenses)]
\* UPDATE expenses SET date=?, amount=?, category=?, subcategory=?, note=? WHERE id=?
SqlUpdateExpense(d, id, date, amount, category, subcategory, note) ==
    LET hit == {e \in d.expenses : e.id = id}
    IN  IF hit # {} /\ NotNullError(date, category) # ""
        THEN [err |-> NotNullError(date, category), db |-> d, rowcount |-> 0]
        ELSE [err |-> "",
              db |-> [d EXCEPT !.expenses =
                        (@ \ hit) \cup
                        {[e EXCEPT !.date = date, !.amount = amount, !.category = category,
                                   !.subcategory = subcategory, !.note = note] : e \in hit}],
              rowcount |-> Cardinality(hit)]

\* The DELETE with WHERE id<=?.
SqlDeleteExpenseUpTo(d, id) ==
    LET hit == {e \in d.expenses : e.id <= id}
    IN  [db |-> [d EXCEPT !.expenses = @ \ hit], rowcount |-> Cardinality(hit)]
\* DELETE FROM expenses WHERE id=?
SqlDeleteExpense(d, id) ==
    LET hit == {e \in d.expenses : e.id = id}
    IN  [db |-> [d EXCEPT !.expenses = @ \ hit], rowcount |-> Cardinality(hit)]

\* INSERT OR REPLACE: an existing row of the name is replaced by a new one.
SqlInsertOrReplaceUser(d, name) ==
    [d EXCEPT !.users = {u \in @ : u.name # name} \cup
        {[id |-> SetMax({u.id : u \in d.users}) + 1, name |-> name, credit |-> 0]}]
\* INSERT OR IGNORE INTO users (name, credit) VALUES (?, 0.0)
\* name is UNIQUE: the row is ignored when a row of that name exists.  NULL
\* names never conflict, so a None name always inserts.  users.id is read by
\* no statement of the program; the model numbers the rows in insertion order.
SqlInsertOrIgnoreUser(d, name) ==
    IF name # None /\ \E u \in d.users : u.name = name
    THEN d
    ELSE [d EXCEPT !.users = @ \cup
            {[id |-> SetMax({u.id : u \in d.users}) + 1, name |-> name, credit |-> 0]}]

\* The UPDATE without its WHERE clause: every user is credited.
SqlAddCreditAll(d, amount, name) ==
    [d EXCEPT !.users = {[u EXCEPT !.credit = @ + amount] : u \in @}]
\* The UPDATE as SET credit = ?.
SqlSetCredit(d, amount, name) ==
    [d EXCEPT !.users =
        {IF name # None /\ u.name = name THEN [u EXCEPT !.credit = amount] ELSE u : u \in @}]
\* UPDATE users SET credit = credit + ? WHERE name = ?   (name = NULL matches no row)
SqlAddCredit(d, amount, name) ==
    [d EXCEPT !.users =
        {IF name # None /\ u.name = name THEN [u EXCEPT !.credit = @ + amount] ELSE u : u \in @}]

\* SELECT credit FROM users WHERE name=?  followed by fetchone(): the row as a
\* tuple <<credit>>, or <<>> for Python's None when no row matches.
SqlSelectCredit(d, name) ==
    LET hit == {u \in d.users : name # None /\ u.name = name}
    IN  IF hit = {} THEN <<>> ELSE <<(CHOOSE u \in hit : TRUE).credit>>

\* A close that commits what the connection wrote.
CloseKeepsWrites(committed, working) == working
\* Closing a connection whose transaction was not committed rolls it back: the
\* file keeps the committed value.
RollbackOnClose(committed, working) == committed

(***************************************************************************)
(* The handlers as functions of the committed database: each gives the     *)
(* committed database after the call and the dict the handler returns.     *)
(* An exception anywhere inside the try block leaves the async with block, *)
(* which closes the connection, and is turned into a status error dict.    *)
(***************************************************************************)
\* An exception that leaves the handler instead of being returned.
Raise(e) == [status |-> "exception", error |-> e]
\* except Exception as e: return {"status": "error", "error": str(e)}
Error(e) == [status |-> "error", error |-> e]

\* init_db: CREATE TABLE / CREATE INDEX IF NOT EXISTS keep what exists; the
\* only row statement is the insert-if-absent of the "default" user.
InitDbCall(d) == SqlInsertOrIgnoreUser(d, "default")

\* add_expense
AddExpenseCall(d, date, amount, category, subcategory, note) ==
    LET f == float(amount)
    IN  IF ~f.ok THEN [db |-> d, out |-> Error(f.err)]
        ELSE LET r == SqlInsertExpense(d, date, f.v, category, subcategory, note)
             IN  IF r.err # ""
                 THEN [db |-> RollbackOnClose(d, r.db), out |-> Error(r.err)]
                 ELSE [db |-> r.db, out |-> [status |-> "ok", id |-> r.lastrowid]]

\* WHERE date BETWEEN ? AND ?
SelectRange(d, start_date, end_date) ==
    {e \in d.expenses : Between(e.date, start_date, end_date)}

\* ORDER BY date DESC, id ASC.
OrderBeforeIdAsc(a, b) == TextLt(b.date, a.date) \/ (a.date = b.date /\ a.id < b.id)
\* ORDER BY date DESC, id DESC: a comes before b
OrderBefore(a, b) == TextLt(b.date, a.date) \/ (a.date = b.date /\ a.id > b.id)

RECURSIVE OrderRows(_)
OrderRows(S) ==
    IF S = {} THEN <<>>
    ELSE LET first == CHOOSE a \in S : \A b \in S \ {a} : OrderBefore(a, b)
         IN  <<first>> \o OrderRows(S \ {first})

\* list_expenses: the rows as dicts keyed by column name
ListExpensesCall(d, start_date, end_date) ==
    [status |-> "ok", expenses |-> OrderRows(SelectRange(d, start_date, end_date))]

RECURSIVE SumAmount(_)
SumAmount(S) ==
    IF S = {} THEN 0
    ELSE LET x == CHOOSE x \in S : TRUE IN x.amount + SumAmount(S \ {x})

\* Python's truth value of the category argument: None and "" are false.
Truthy(category) == category # None /\ category # ""

\* SELECT category, SUM(amount), COUNT(*) ... [AND category = ?] GROUP BY category
SummaryRows(d, start_date, end_date, category) ==
    LET sel == {e \in SelectRange(d, start_date, end_date) :
                    Truthy(category) => e.category = category}
    IN  {[category |-> c,
          total_amount |-> SumAmount({e \in sel : e.category = c}),
          count |-> Cardinality({e \in sel : e.category = c})] : c \in {e.category : e \in sel}}

RECURSIVE Perms(_)
Perms(G) == IF G = {} THEN {<<>>} ELSE UNION {{<<g>> \o q : q \in Perms(G \ {g})} : g \in G}

\* ORDER BY total_amount DESC: SQL fixes no order among equal totals, so every
\* non-increasing order of the groups is a possible result.
SummaryOrders(G) ==
    {q \in Perms(G) : \A i, j \in 1..Len(q) : i < j => q[i].total_amount >= q[j].total_amount}

\* edit_expense: the commit precedes the look at rowcount
EditExpenseCall(d, id, date, amount, category, subcategory, note) ==
    LET f == float(amount)
    IN  IF ~f.ok THEN [db |-> d, out |-> Error(f.err)]
        ELSE LET r == SqlUpdateExpense(d, id, date, f.v, category, subcategory, note)
             IN  IF r.err # ""
                 THEN [db |-> RollbackOnClose(d, r.db), out |-> Error(r.err)]
                 ELSE [db |-> r.db,
                       out |-> IF r.rowcount = 0 THEN Error("ID not found")
                               ELSE [status |-> "ok"]]

\* delete_expense
DeleteExpenseCall(d, id) ==
    LET r == SqlDeleteExpense(d, id)
    IN  [db |-> r.db,
         out |-> IF r.rowcount = 0 THEN Error("ID not found") ELSE [status |-> "ok"]]

\* add_credit: the insert-if-absent runs first; float(amount) is evaluated as
\* the UPDATE's parameter, after it; the commit precedes row[0], which raises
\* TypeError when no row was fetched.
AddCreditCall(d, amount, user_name) ==
    LET t1 == SqlInsertOrIgnoreUser(d, user_name)
        f == float(amount)
    IN  IF ~f.ok THEN [db |-> RollbackOnClose(d, t1), out |-> Error(f.err)]
        ELSE LET t2 == SqlAddCredit(t1, f.v, user_name)
                 fetched == SqlSelectCredit(t2, user_name)
             IN  [db |-> t2,
                  out |-> IF fetched = <<>>
                          THEN Error("'NoneType' object is not subscriptable")
                          ELSE [status |-> "ok", credit |-> fetched[1]]]

(***************************************************************************)
(* The arguments the calls are made with.                                  *)
(***************************************************************************)
\* dates "01-05" and "01-10", and range bounds "01", "01-05", "01-1", "01-10", "02"
D0105 == <<"0", "1", "-", "0", "5">>
D0110 == <<"0", "1", "-", "1", "0">>
Ranges ==
    { <<(<<"0", "1">>), (<<"0", "2">>)>>,      \* holds both dates
      <<D0105, (<<"0", "1", "-", "1">>)>>,      \* holds "01-05" alone, as its lower bound
      <<(<<"0", "1", "-", "1">>), D0110>>,      \* holds "01-10" alone, as its upper bound
      <<(<<"0", "2">>), (<<"0", "1">>)>> }      \* start_date > end_date

\* the unparseable amount "1x"
BadAmount == PyStr(<<"1", "x">>)

ExpenseArgs(date, amount, category, subcategory, note) ==
    [date |-> date, amount |-> amount, category |-> category,
     subcategory |-> subcategory, note |-> note]

\* What add_expense and edit_expense are called with in Spec: six valid rows
\* over two dates, the amounts 5 and "12", two categories, two subcategories
\* and two notes; one call with an unparseable amount; one with a None
\* category and one with a None date (which violate NOT NULL).
GoodExpenseArgs ==
    { ExpenseArgs(D0105, PyNum(5), "Food", "", ""),
      ExpenseArgs(D0105, PyStr(<<"1", "2">>), "Food", "bus", ""),
      ExpenseArgs(D0110, PyNum(5), "Food", "", "memo"),
      ExpenseArgs(D0110, PyStr(<<"1", "2">>), "Travel", "bus", "memo"),
      ExpenseArgs(D0105, PyNum(5), "Travel", "", ""),
      ExpenseArgs(D0110, PyNum(5), "Travel", "bus", "") }
BadExpenseArgs ==
    { ExpenseArgs(D0110, BadAmount, "Travel", "bus", "memo"),
      ExpenseArgs(D0105, PyNum(5), None, "", "memo"),
      ExpenseArgs(NoneDate, PyStr(<<"1", "2">>), "Food", "", "") }
AllExpenseArgs == GoodExpenseArgs \cup BadExpenseArgs

Categories == {"Food", "Travel"}
\* category arguments of summarize: None is the default
Filters == Categories \cup {None, ""}

\* ids edit_expense and delete_expense are called with: every id the store
\* may hand out and one it never does
IdArgs == 1..(MaxId + 1)

UserNames == {"default", "u", None}
CreditAmounts == {PyNum(5), PyNum(3), BadAmount}

(***************************************************************************)
(* SpecConc: the connections.                                              *)
(***************************************************************************)
Procs == 1..NCalls
NoCall == [amount |-> PyNone, user_name |-> None]
NoRes == [status |-> "none"]
Unlocked == [writer |-> 0]

Idle ==
    /\ pc = [p \in Procs |-> "idle"]
    /\ call = [p \in Procs |-> NoCall]
    /\ tx = [p \in Procs |-> EmptyDb]
    /\ row = [p \in Procs |-> <<>>]
    /\ res = [p \in Procs |-> NoRes]
    /\ lock = Unlocked

(***************************************************************************)
(* Spec: one call at a time.                                               *)
(***************************************************************************)
NoHist == [issued |-> {}, deleted |-> {}]

\* Before the first process start: no database file yet.
Init ==
    /\ db = EmptyDb
    /\ ret = [op |-> "start"]
    /\ hist = NoHist
    /\ Idle

\* asyncio.run(init_db()) runs at import, before the server takes a call.
Serving == ret.op # "start"

\* A process start: init_db on the file as the last process left it.
init_db ==
    /\ db' = InitDbCall(db)
    /\ ret' = [op |-> "init_db"]
    /\ UNCHANGED <<hist, concVars>>

add_expense(date, amount, category, subcategory, note) ==
    LET c == AddExpenseCall(db, date, amount, category, subcategory, note)
    IN  /\ Serving
        /\ c.out.status = "ok" => c.out.id <= MaxId
        /\ db' = c.db
        /\ ret' = [op |-> "add_expense",
                   args |-> [date |-> date, amount |-> amount, category |-> category,
                             subcategory |-> subcategory, note |-> note],
                   out |-> c.out]
        /\ hist' = IF c.out.status = "ok"
                   THEN [hist EXCEPT !.issued = @ \cup {c.out.id}]
                   ELSE hist
        /\ UNCHANGED concVars

list_expenses(start_date, end_date) ==
    /\ Serving
    /\ ret' = [op |-> "list_expenses",
               args |-> [start_date |-> start_date, end_date |-> end_date],
               out |-> ListExpensesCall(db, start_date, end_date)]
    /\ UNCHANGED <<db, hist, concVars>>

summarize(start_date, end_date, category) ==
    /\ Serving
    /\ \E q \in SummaryOrders(SummaryRows(db, start_date, end_date, category)) :
          ret' = [op |-> "summarize",
                  args |-> [start_date |-> start_date, end_date |-> end_date,
                            category |-> category],
                  out |-> [status |-> "ok", summary |-> q]]
    /\ UNCHANGED <<db, hist, concVars>>

edit_expense(id, date, amount, category, subcategory, note) ==
    LET c == EditExpenseCall(db, id, date, amount, category, subcategory, note)
    IN  /\ Serving
        /\ db' = c.db
        /\ ret' = [op |-> "edit_expense",
                   args |-> [id |-> id, date |-> date, amount |-> amount,
                             category |-> category, subcategory |-> subcategory,
                             note |-> note],
                   out |-> c.out]
        /\ UNCHANGED <<hist, concVars>>

delete_expense(id) ==
    LET c == DeleteExpenseCall(db, id)
    IN  /\ Serving
        /\ db' = c.db
        /\ ret' = [op |-> "delete_expense", args |-> [id |-> id], out |-> c.out]
        /\ hist' = IF c.out.status = "ok"
                   THEN [hist EXCEPT !.deleted = @ \cup {id}]
                   ELSE hist
        /\ UNCHANGED concVars

add_credit(amount, user_name) ==
    LET c == AddCreditCall(db, amount, user_name)
    IN  /\ Serving
        /\ Cardinality(c.db.users) <= MaxUsers
        /\ \A u \in c.db.users : u.credit <= MaxCredit
        /\ db' = c.db
        /\ ret' = [op |-> "add_credit",
                   args |-> [amount |-> amount, user_name |-> user_name],
                   out |-> c.out]
        /\ UNCHANGED <<hist, concVars>>

Next ==
    \/ init_db
    \/ \E a \in AllExpenseArgs :
          add_expense(a.date, a.amount, a.category, a.subcategory, a.note)
    \/ \E r \in Ranges : list_expenses(r[1], r[2])
    \/ \E r \in Ranges, c \in Filters : summarize(r[1], r[2], c)
    \/ \E id \in IdArgs, a \in AllExpenseArgs :
          edit_expense(id, a.date, a.amount, a.category, a.subcategory, a.note)
    \/ \E id \in IdArgs : delete_expense(id)

Spec == Init /\ [][Next]_vars

(***************************************************************************)
(* SpecStore: one call at a time, on both tables: add_credit with every    *)
(* argument, add_expense with two rows.                                    *)
(***************************************************************************)
StoreExpenseArgs ==
    { ExpenseArgs(D0105, PyNum(5), "Food", "", ""),
      ExpenseArgs(D0110, PyStr(<<"1", "2">>), "Travel", "bus", "memo") }

StoreNext ==
    \/ init_db
    \/ \E a \in CreditAmounts, u \in UserNames : add_credit(a, u)
    \/ \E a \in StoreExpenseArgs :
          add_expense(a.date, a.amount, a.category, a.subcategory, a.note)

SpecStore == Init /\ [][StoreNext]_vars

(***************************************************************************)
(* SpecConc: NCalls add_credit calls, each on its own connection, one SQL  *)
(* statement per step.  sqlite3 opens a transaction before the first       *)
(* INSERT/UPDATE of a connection; that statement takes the file's write    *)
(* (RESERVED) lock, which one connection at a time holds until it commits  *)
(* or closes.  A connection that finds the lock taken waits in SQLite's    *)
(* busy handler; when the connection's timeout (sqlite3's default, 5 s)    *)
(* runs out first, the statement raises "database is locked".              *)
(***************************************************************************)
ConcAmounts == {PyNum(10), BadAmount}
ConcUsers == {"u", "default"}

\* The server is up: init_db has run on an empty file, no call is in progress.
ConcInit ==
    /\ db = InitDbCall(EmptyDb)
    /\ ret = [op |-> "init_db"]
    /\ hist = NoHist
    /\ Idle

\* No write lock: every connection may write.
CanReserveAlways(p) == TRUE
\* The write lock is free for connection p.
CanReserve(p) == lock.writer = 0 \/ lock.writer = p

\* The connections that hold a read (SHARED) lock: those with a SELECT whose
\* cursor is open on a row, between its execute and its fetchall.
Readers == {q \in Procs : pc[q] = "fetch" /\ row[q] # <<>>}

\* A commit that waits for no reader.
CanCommitAlways(p) == TRUE
\* conn.commit() needs the EXCLUSIVE lock, which SQLite grants when no other
\* connection holds a SHARED lock.
CanCommit(p) == Readers \ {p} = {}

\* A connection inside conn.commit() that waits for readers holds the PENDING
\* lock, under which no other connection gets a new SHARED lock.
CanShare(p) == \A q \in Procs \ {p} : pc[q] \in {"commit", "ecommit"} => CanCommit(q)

\* A connection that reads the writer's uncommitted pages (read_uncommitted).
ViewUncommitted(p) == IF lock.writer # 0 THEN tx[lock.writer] ELSE db
\* What a statement of connection p reads: its own transaction when it has
\* written, otherwise the database as last committed.
View(p) == IF lock.writer = p THEN tx[p] ELSE db

\* A call arrives: async with aiosqlite.connect(DB_PATH) as conn
CreditStart(p, amount, user_name) ==
    /\ pc[p] = "idle"
    /\ call' = [call EXCEPT ![p] = [amount |-> amount, user_name |-> user_name]]
    /\ pc' = [pc EXCEPT ![p] = "insert"]
    /\ UNCHANGED <<serialVars, tx, row, res, lock>>

\* conn.execute("INSERT OR IGNORE INTO users ..."): begins the transaction on
\* the committed database and takes the write lock.
CreditInsert(p) ==
    /\ pc[p] = "insert"
    /\ CanReserve(p)
    /\ lock' = [lock EXCEPT !.writer = p]
    /\ tx' = [tx EXCEPT ![p] = SqlInsertOrIgnoreUser(db, call[p].user_name)]
    /\ pc' = [pc EXCEPT ![p] = "update"]
    /\ UNCHANGED <<serialVars, call, row, res>>

\* The same statement when another connection holds the write lock until the
\* timeout: OperationalError, caught by the handler's except.
CreditInsertBusy(p) ==
    /\ pc[p] = "insert"
    /\ ~CanReserve(p)
    /\ res' = [res EXCEPT ![p] = Error("database is locked")]
    /\ pc' = [pc EXCEPT ![p] = "done"]
    /\ UNCHANGED <<serialVars, call, tx, row, lock>>

\* conn.execute("UPDATE users SET credit = credit + ? ...", (float(amount), ...)):
\* when float raises, the connection closes: its transaction is rolled back
\* and its lock released.
CreditUpdate(p) ==
    /\ pc[p] = "update"
    /\ LET f == float(call[p].amount)
       IN  IF f.ok
           THEN /\ tx' = [tx EXCEPT ![p] = SqlAddCredit(@, f.v, call[p].user_name)]
                /\ pc' = [pc EXCEPT ![p] = "select"]
                /\ UNCHANGED <<db, res, lock>>
           ELSE /\ db' = RollbackOnClose(db, tx[p])
                /\ tx' = [tx EXCEPT ![p] = EmptyDb]
                /\ lock' = [lock EXCEPT !.writer = 0]
                /\ res' = [res EXCEPT ![p] = Error(f.err)]
                /\ pc' = [pc EXCEPT ![p] = "done"]
    /\ UNCHANGED <<ret, hist, call, row>>

\* cur = conn.execute("SELECT credit FROM users WHERE name=?"); row = fetchone()
CreditSelect(p) ==
    /\ pc[p] = "select"
    /\ row' = [row EXCEPT ![p] = SqlSelectCredit(tx[p], call[p].user_name)]
    /\ pc' = [pc EXCEPT ![p] = "commit"]
    /\ UNCHANGED <<serialVars, call, tx, res, lock>>

\* conn.commit(): once no other connection holds a read lock, the
\* transaction's database becomes the committed one and the lock is released.
CreditCommit(p) ==
    /\ pc[p] = "commit"
    /\ CanCommit(p)
    /\ db' = tx[p]
    /\ tx' = [tx EXCEPT ![p] = EmptyDb]
    /\ lock' = [lock EXCEPT !.writer = 0]
    /\ pc' = [pc EXCEPT ![p] = "return"]
    /\ UNCHANGED <<ret, hist, call, row, res>>

\* return {"status": "ok", "credit": row[0]}
CreditReturn(p) ==
    /\ pc[p] = "return"
    /\ res' = [res EXCEPT ![p] =
                  IF row[p] = <<>> THEN Error("'NoneType' object is not subscriptable")
                  ELSE [status |-> "ok", credit |-> row[p][1]]]
    /\ row' = [row EXCEPT ![p] = <<>>]
    /\ pc' = [pc EXCEPT ![p] = "done"]
    /\ UNCHANGED <<serialVars, call, tx, lock>>

ConcNext ==
    \E p \in Procs :
        \/ \E a \in ConcAmounts, u \in ConcUsers : CreditStart(p, a, u)
        \/ CreditInsert(p)
        \/ CreditInsertBusy(p)
        \/ CreditUpdate(p)
        \/ CreditSelect(p)
        \/ CreditCommit(p)
        \/ CreditReturn(p)

SpecConc == ConcInit /\ [][ConcNext]_vars

(***************************************************************************)
(* SpecTxn: calls of every handler, each on its own connection, one        *)
(* statement per step, on a store that earlier calls have filled.  The     *)
(* add_credit steps are those of SpecConc.  A SELECT holds SQLite's read   *)
(* (SHARED) lock while its cursor is open; a commit waits for the readers  *)
(* to finish, and keeps new readers out while it waits.  Every wait for a  *)
(* lock may outlast the connection's timeout and raise "database is        *)
(* locked".  While a call is at a statement it may be interrupted (the     *)
(* task cancelled, the process killed): its connection closes uncommitted. *)
(***************************************************************************)
\* Stores the server may hold when the calls arrive: after init_db, after one
\* add_expense, after two.
Store0 == InitDbCall(EmptyDb)
Store1 == AddExpenseCall(Store0, D0110, PyNum(5), "Food", "", "").db
Store2 == AddExpenseCall(Store1, D0105, PyStr(<<"1", "2">>), "Travel", "bus", "memo").db
TxnStores == {Store0, Store1, Store2}

WriteCall(op, id, a) ==
    [op |-> op, id |-> id, date |-> a.date, amount |-> a.amount, category |-> a.category,
     subcategory |-> a.subcategory, note |-> a.note]
ReadCall(op, start_date, end_date, category) ==
    [op |-> op, start_date |-> start_date, end_date |-> end_date, category |-> category]

\* The calls of add_expense, edit_expense and delete_expense: two valid adds,
\* an add with a None category, an edit of id 1 that moves its date, an edit
\* with an unparseable amount, a delete of id 1.
TxnWrites ==
    { WriteCall("add_expense", 0, ExpenseArgs(D0105, PyNum(5), "Food", "", "")),
      WriteCall("add_expense", 0, ExpenseArgs(D0110, PyStr(<<"1", "2">>), "Travel", "bus", "memo")),
      WriteCall("add_expense", 0, ExpenseArgs(D0110, PyStr(<<"1", "2">>), None, "", "")),
      WriteCall("edit_expense", 1, ExpenseArgs(D0105, PyNum(7), "Travel", "", "")),
      WriteCall("edit_expense", 1, ExpenseArgs(D0105, BadAmount, "Travel", "", "")),
      WriteCall("delete_expense", 1, ExpenseArgs(NoneDate, PyNone, None, None, None)) }
\* The calls of list_expenses and summarize, over the range "01".."02".
TxnReads ==
    { ReadCall("list_expenses", <<"0", "1">>, <<"0", "2">>, None),
      ReadCall("summarize", <<"0", "1">>, <<"0", "2">>, None) }
\* The calls of add_credit: to a new user, with an unparseable amount, and
\* with a None user_name.
TxnCredits ==
    { [amount |-> PyNum(10), user_name |-> "u"],
      [amount |-> BadAmount, user_name |-> "u"],
      [amount |-> PyNum(10), user_name |-> None] }

TxnInit ==
    /\ db \in TxnStores
    /\ ret = [op |-> "init_db"]
    /\ hist = NoHist
    /\ Idle

\* What the handler returns after a commit: the new id, or the look at rowcount.
RowcountGeneric(n) == IF n = 0 THEN Error("database is locked") ELSE [status |-> "ok"]
RowcountResult(n) == IF n = 0 THEN Error("ID not found") ELSE [status |-> "ok"]
\* The new id taken as the largest id of the table at the return.
WriteResultLatest(op, n) ==
    IF op = "add_expense" THEN [status |-> "ok", id |-> SetMax(Ids(db))]
    ELSE RowcountResult(n)
\* return {"status": "ok", "id": cur.lastrowid}, the connection's own last insert
WriteResult(op, n) ==
    IF op = "add_expense" THEN [status |-> "ok", id |-> n] ELSE RowcountResult(n)

\* float(amount) as the parameters of the call's statement are built
\* (delete_expense has none).
WriteFloat(c) ==
    IF c.op = "delete_expense" THEN [ok |-> TRUE, v |-> 0, err |-> ""] ELSE float(c.amount)

\* The INSERT, UPDATE or DELETE of call c on database d: the error it raises,
\* the database after it, and cur.lastrowid or cur.rowcount.
WriteStatement(d, c, v) ==
    CASE c.op = "add_expense" ->
            LET r == SqlInsertExpense(d, c.date, v, c.category, c.subcategory, c.note)
            IN  [err |-> r.err, db |-> r.db, n |-> r.lastrowid]
      [] c.op = "edit_expense" ->
            LET r == SqlUpdateExpense(d, c.id, c.date, v, c.category, c.subcategory, c.note)
            IN  [err |-> r.err, db |-> r.db, n |-> r.rowcount]
      [] OTHER ->
            LET r == SqlDeleteExpense(d, c.id)
            IN  [err |-> "", db |-> r.db, n |-> r.rowcount]

\* add_expense, edit_expense, delete_expense: async with aiosqlite.connect
WriteStart(p, c) ==
    /\ pc[p] = "idle"
    /\ call' = [call EXCEPT ![p] = c]
    /\ pc' = [pc EXCEPT ![p] = "write"]
    /\ UNCHANGED <<serialVars, tx, row, res, lock>>

\* conn.execute(INSERT / UPDATE / DELETE): float(amount) may raise before the
\* statement is issued; the statement begins the transaction and takes the
\* write lock; a NOT NULL violation raises, and the connection closes.
WriteExecute(p) ==
    /\ pc[p] = "write"
    /\ LET c == call[p]
           f == WriteFloat(c)
       IN  IF ~f.ok
           THEN /\ res' = [res EXCEPT ![p] = Error(f.err)]
                /\ pc' = [pc EXCEPT ![p] = "done"]
                /\ UNCHANGED <<db, tx, row, lock>>
           ELSE /\ CanReserve(p)
                /\ LET r == WriteStatement(View(p), c, f.v)
                   IN  IF r.err # ""
                       THEN /\ db' = RollbackOnClose(db, r.db)
                            /\ res' = [res EXCEPT ![p] = Error(r.err)]
                            /\ pc' = [pc EXCEPT ![p] = "done"]
                            /\ UNCHANGED <<tx, row, lock>>
                       ELSE /\ tx' = [tx EXCEPT ![p] = r.db]
                            /\ row' = [row EXCEPT ![p] = <<r.n>>]
                            /\ lock' = [lock EXCEPT !.writer = p]
                            /\ pc' = [pc EXCEPT ![p] = "ecommit"]
                            /\ UNCHANGED <<db, res>>
    /\ UNCHANGED <<ret, hist, call>>

\* The statement when another connection holds the write lock until the timeout.
WriteBusy(p) ==
    /\ pc[p] = "write"
    /\ WriteFloat(call[p]).ok
    /\ ~CanReserve(p)
    /\ res' = [res EXCEPT ![p] = Error("database is locked")]
    /\ pc' = [pc EXCEPT ![p] = "done"]
    /\ UNCHANGED <<serialVars, call, tx, row, lock>>

\* conn.commit()
WriteCommit(p) ==
    /\ pc[p] = "ecommit"
    /\ CanCommit(p)
    /\ db' = tx[p]
    /\ tx' = [tx EXCEPT ![p] = EmptyDb]
    /\ lock' = [lock EXCEPT !.writer = 0]
    /\ pc' = [pc EXCEPT ![p] = "ereturn"]
    /\ UNCHANGED <<ret, hist, call, row, res>>

\* A commit that raises although it stored the transaction.
CommitBusyStored(p) ==
    /\ pc[p] \in {"commit", "ecommit"}
    /\ ~CanCommit(p)
    /\ db' = tx[p]
    /\ tx' = [tx EXCEPT ![p] = EmptyDb]
    /\ row' = [row EXCEPT ![p] = <<>>]
    /\ lock' = [lock EXCEPT !.writer = 0]
    /\ res' = [res EXCEPT ![p] = Error("database is locked")]
    /\ pc' = [pc EXCEPT ![p] = "done"]
    /\ UNCHANGED <<ret, hist, call>>
\* conn.commit() when a reader keeps its lock until the timeout: the commit
\* raises, the connection closes and its transaction is rolled back.
CommitBusy(p) ==
    /\ pc[p] \in {"commit", "ecommit"}
    /\ ~CanCommit(p)
    /\ db' = RollbackOnClose(db, tx[p])
    /\ tx' = [tx EXCEPT ![p] = EmptyDb]
    /\ row' = [row EXCEPT ![p] = <<>>]
    /\ lock' = [lock EXCEPT !.writer = 0]
    /\ res' = [res EXCEPT ![p] = Error("database is locked")]
    /\ pc' = [pc EXCEPT ![p] = "done"]
    /\ UNCHANGED <<ret, hist, call>>

\* return {"status": "ok", "id": cur.lastrowid}; if cur.rowcount == 0: ...
WriteReturn(p) ==
    /\ pc[p] = "ereturn"
    /\ res' = [res EXCEPT ![p] = WriteResult(call[p].op, row[p][1])]
    /\ row' = [row EXCEPT ![p] = <<>>]
    /\ pc' = [pc EXCEPT ![p] = "done"]
    /\ UNCHANGED <<serialVars, call, tx, lock>>

\* list_expenses, summarize: async with aiosqlite.connect
ReadStart(p, c) ==
    /\ pc[p] = "idle"
    /\ call' = [call EXCEPT ![p] = c]
    /\ pc' = [pc EXCEPT ![p] = "execute"]
    /\ UNCHANGED <<serialVars, tx, row, res, lock>>

\* The rows of the range that ORDER BY date DESC, id DESC puts after row a.
RowsAfter(d, start_date, end_date, a) ==
    OrderRows({b \in SelectRange(d, start_date, end_date) : OrderBefore(a, b)})

\* cur = conn.execute(SELECT ...): the statement takes the read lock and steps
\* to its first row.  list_expenses walks the date index, so its cursor stands
\* on the first row of the result; summarize groups and sorts first, so its
\* cursor holds the whole result.  No row: the statement is over and holds no
\* lock.  tx is the database the statement's read transaction began on.
ReadExecute(p) ==
    /\ pc[p] = "execute"
    /\ CanShare(p)
    /\ LET c == call[p]
       IN  IF c.op = "list_expenses"
           THEN LET l == OrderRows(SelectRange(View(p), c.start_date, c.end_date))
                IN  row' = [row EXCEPT ![p] = IF l = <<>> THEN <<>> ELSE <<l[1]>>]
           ELSE \E q \in SummaryOrders(SummaryRows(View(p), c.start_date, c.end_date,
                                                   c.category)) :
                    row' = [row EXCEPT ![p] = q]
    /\ tx' = [tx EXCEPT ![p] = View(p)]
    /\ pc' = [pc EXCEPT ![p] = "fetch"]
    /\ UNCHANGED <<serialVars, call, res, lock>>

\* The SELECT when a commit keeps readers out until the timeout.
ReadBusy(p) ==
    /\ pc[p] = "execute"
    /\ ~CanShare(p)
    /\ res' = [res EXCEPT ![p] = Error("database is locked")]
    /\ pc' = [pc EXCEPT ![p] = "done"]
    /\ UNCHANGED <<serialVars, call, tx, row, lock>>

\* rows = cur.fetchall(); return {"status": "ok", ...}: list_expenses reads the
\* rows after the cursor's from the database as it is now.
ReadFetch(p) ==
    /\ pc[p] = "fetch"
    /\ LET c == call[p]
       IN  res' = [res EXCEPT ![p] =
                IF c.op = "list_expenses"
                THEN [status |-> "ok",
                      expenses |-> IF row[p] = <<>> THEN <<>>
                                   ELSE row[p] \o RowsAfter(View(p), c.start_date,
                                                            c.end_date, row[p][1])]
                ELSE [status |-> "ok", summary |-> row[p]]]
    /\ tx' = [tx EXCEPT ![p] = EmptyDb]
    /\ row' = [row EXCEPT ![p] = <<>>]
    /\ pc' = [pc EXCEPT ![p] = "done"]
    /\ UNCHANGED <<serialVars, call, lock>>

\* The positions at which a call has a statement in flight.
InFlight == {"insert", "update", "select", "commit", "write", "ecommit", "execute", "fetch"}

\* The call is interrupted before its commit went through: the async with
\* block is left, the connection closes, its transaction is rolled back and
\* its locks are released; nothing is returned.
Interrupt(p) ==
    /\ pc[p] \in InFlight
    /\ db' = RollbackOnClose(db, tx[p])
    /\ tx' = [tx EXCEPT ![p] = EmptyDb]
    /\ row' = [row EXCEPT ![p] = <<>>]
    /\ lock' = IF lock.writer = p THEN [lock EXCEPT !.writer = 0] ELSE lock
    /\ pc' = [pc EXCEPT ![p] = "cancelled"]
    /\ UNCHANGED <<ret, hist, call, res>>

\* The steps of the handler that connection p runs.
HandlerStep(p) ==
    \/ CreditInsert(p)
    \/ CreditInsertBusy(p)
    \/ CreditUpdate(p)
    \/ CreditSelect(p)
    \/ CreditCommit(p)
    \/ CreditReturn(p)
    \/ WriteExecute(p)
    \/ WriteBusy(p)
    \/ WriteCommit(p)
    \/ CommitBusy(p)
    \/ WriteReturn(p)
    \/ ReadExecute(p)
    \/ ReadBusy(p)
    \/ ReadFetch(p)

TxnNext ==
    \E p \in Procs :
        \/ \E c \in TxnCredits : CreditStart(p, c.amount, c.user_name)
        \/ \E c \in TxnWrites : WriteStart(p, c)
        \/ \E c \in TxnReads : ReadStart(p, c)
        \/ HandlerStep(p)
        \/ Interrupt(p)

SpecTxn == TxnInit /\ [][TxnNext]_vars

\* SpecReturn: the calls that are not interrupted, on the store after one
\* add_expense.  Every handler that has a step to take takes it: the event
\* loop and the connections' threads keep running.
ReturnInit ==
    /\ db = Store1
    /\ ret = [op |-> "init_db"]
    /\ hist = NoHist
    /\ Idle

ReturnNext ==
    \E p \in Procs :
        \/ \E c \in TxnCredits : CreditStart(p, c.amount, c.user_name)
        \/ \E c \in TxnWrites : WriteStart(p, c)
        \/ \E c \in TxnReads : ReadStart(p, c)
        \/ HandlerStep(p)

SpecReturn == ReturnInit /\ [][ReturnNext]_vars /\ \A p \in Procs : WF_vars(HandlerStep(p))

(***************************************************************************)
(* Properties.                                                             *)
(***************************************************************************)
\* The call the last step made, read off ret.
Called(r, op) == r.op = op
ReturnedOk(r, op) == r.op = op /\ r.out.status = "ok"
ReturnedError(r, op, e) == r.op = op /\ r.out = Error(e)

\* The expenses row a call with a numeric amount stands for.
RowOf(id, args) ==
    [id |-> id, date |-> args.date, amount |-> args.amount.n, category |-> args.category,
     subcategory |-> args.subcategory, note |-> args.note]

Rows(d, id) == {e \in d.expenses : e.id = id}

InList(l, e) == \E i \in 1..Len(l) : l[i] = e

UserRows(d, name) == {u \in d.users : u.name = name}

\* A user's balance: the credit of the row of that name, 0 when there is none.
CreditOf(d, name) ==
    IF UserRows(d, name) = {} THEN 0 ELSE (CHOOSE u \in UserRows(d, name) : TRUE).credit

\* The calls of SpecConc that returned status ok.
OkCalls == {p \in Procs : res[p].status = "ok"}

AllDone == \A p \in Procs : pc[p] = "done"

\* Every call of SpecConc was add_credit(10, "u").
AllTenToU == \A p \in Procs : call[p] = [amount |-> PyNum(10), user_name |-> "u"]

\* C1 as stated: once NCalls concurrent add_credit(10, "u") calls for a new
\* user have all finished, the stored credit of "u" is 10 * NCalls.
C1_AllIncrementsStored ==
    (AllDone /\ AllTenToU) => CreditOf(db, "u") = 10 * NCalls

\* C1, amended: once they have all finished, the stored credit of "u" is 10
\* times the number of calls that returned status ok (10 * NCalls when all
\* did); a call refused with "database is locked" adds nothing.
C1_NoLostUpdate ==
    (AllDone /\ AllTenToU) =>
        /\ CreditOf(db, "u") = 10 * Cardinality(OkCalls)
        /\ \A p \in Procs \ OkCalls : res[p] = Error("database is locked")

C1_Witness ==
    /\ AllDone
    /\ AllTenToU
    /\ OkCalls = Procs
    /\ CreditOf(db, "u") = 10 * NCalls

\* C2: after a successful add_expense with a numeric amount, list_expenses over
\* every range with start_date <= date <= end_date returns a row with the
\* values passed in under the id add_expense returned, and no other row of the
\* store has that id.
C2_AddThenList ==
    (ReturnedOk(ret, "add_expense") /\ ret.args.amount.kind = "num") =>
        /\ \A r \in Ranges :
              (TextLeq(r[1], ret.args.date) /\ TextLeq(ret.args.date, r[2])) =>
                  InList(ListExpensesCall(db, r[1], r[2]).expenses,
                         RowOf(ret.out.id, ret.args))
        /\ Rows(db, ret.out.id) = {RowOf(ret.out.id, ret.args)}

C2_Witness ==
    /\ ReturnedOk(ret, "add_expense")
    /\ ret.args.amount.kind = "num"
    /\ Cardinality(db.expenses) = 2
    /\ \E r \in Ranges : Len(ListExpensesCall(db, r[1], r[2]).expenses) = 2

\* C3: an id add_expense returns is greater than every id it returned before
\* and than every id of a row now or formerly in the table, deleted rows
\* included, and at every moment no two rows share an id.
C3_IdsIncreaseNeverReused ==
    [][ /\ ReturnedOk(ret', "add_expense") =>
              \A i \in hist.issued \cup hist.deleted \cup Ids(db) : ret'.out.id > i
        /\ \A e1, e2 \in db'.expenses : e1.id = e2.id => e1 = e2 ]_vars

C3_Witness ==
    /\ ReturnedOk(ret, "add_expense")
    /\ (ret.out.id - 1) \in hist.deleted
    /\ Ids(db) = {ret.out.id}

\* C4 as stated: edit_expense with a numeric amount on an existing id returns
\* ok (whatever the other arguments are).
C4_EditExistingAlwaysOk ==
    [][ (Called(ret', "edit_expense") /\ ret'.args.amount.kind = "num"
            /\ ret'.args.id \in Ids(db)) => ret'.out.status = "ok" ]_vars

\* C4, amended: edit_expense with a numeric amount and non-null date and
\* category: on an existing id X it returns ok, the row X takes the given
\* values and keeps its id, every other row and the set of ids are unchanged;
\* on an id no row has it returns the error "ID not found" and the table is
\* as before.
C4_EditFrame ==
    [][ (Called(ret', "edit_expense") /\ ret'.args.amount.kind = "num"
            /\ ret'.args.date # NoneDate /\ ret'.args.category # None) =>
          LET X == ret'.args.id
          IN  IF X \in Ids(db)
              THEN /\ ret'.out = [status |-> "ok"]
                   /\ Rows(db', X) = {RowOf(X, ret'.args)}
                   /\ \A e \in db.expenses : e.id # X => e \in db'.expenses
                   /\ Ids(db') = Ids(db)
                   /\ Cardinality(db'.expenses) = Cardinality(db.expenses)
              ELSE /\ ret'.out = Error("ID not found")
                   /\ db' = db ]_vars

C4_Witness ==
    /\ ReturnedOk(ret, "edit_expense")
    /\ ret.args.amount.kind = "num"
    /\ Rows(db, ret.args.id) = {RowOf(ret.args.id, ret.args)}
    /\ Cardinality(db.expenses) = 2

\* C5: delete_expense on an existing id X returns ok and removes the row X and
\* no other; a delete_expense of an id that an earlier delete_expense removed,
\* whatever happened in between, returns the error "ID not found" and changes
\* nothing.
C5_DeleteOnce ==
    [][ Called(ret', "delete_expense") =>
          LET X == ret'.args.id
          IN  /\ X \in Ids(db) =>
                    /\ ret'.out = [status |-> "ok"]
                    /\ db'.expenses = db.expenses \ Rows(db, X)
                    /\ Cardinality(Rows(db, X)) = 1
                    /\ db'.users = db.users
              /\ X \in hist.deleted =>
                    /\ ret'.out = Error("ID not found")
                    /\ db' = db ]_vars

C5_Witness ==
    /\ ReturnedError(ret, "delete_expense", "ID not found")
    /\ ret.args.id \in hist.deleted
    /\ hist.issued = 1..MaxId
    /\ db.expenses # {}

\* What C6 expects of summarize(start, end, category): one group per category
\* of the rows list_expenses(start, end) returns, of the filter category alone
\* when category is given (not None), with the sum and the number of the rows.
ListedRows(d, start_date, end_date) ==
    LET l == ListExpensesCall(d, start_date, end_date).expenses
    IN  {l[i] : i \in 1..Len(l)}

ExpectedSummary(d, start_date, end_date, category) ==
    LET rows == {e \in ListedRows(d, start_date, end_date) :
                    category # None => e.category = category}
    IN  {[category |-> c,
          total_amount |-> SumAmount({e \in rows : e.category = c}),
          count |-> Cardinality({e \in rows : e.category = c})] :
            c \in {e.category : e \in rows}}

\* C6: the groups summarize returns are those of the rows list_expenses
\* returns for the same range, restricted to the filter category when one is
\* given.
C6_SummarizeMatchesList ==
    Called(ret, "summarize") =>
        /\ {ret.out.summary[i] : i \in 1..Len(ret.out.summary)}
              = ExpectedSummary(db, ret.args.start_date, ret.args.end_date, ret.args.category)
        /\ Len(ret.out.summary)
              = Cardinality(ExpectedSummary(db, ret.args.start_date, ret.args.end_date,
                                            ret.args.category))

\* C7: a successful add_credit returns the user's balance before the call (0
\* without a row) plus the amount, and that is the balance the user's one row
\* holds after the call.
C7_AddCreditReturnsNewBalance ==
    [][ (ReturnedOk(ret', "add_credit") /\ ret'.args.amount.kind = "num") =>
          /\ ret'.out.credit = CreditOf(db, ret'.args.user_name) + ret'.args.amount.n
          /\ Cardinality(UserRows(db', ret'.args.user_name)) = 1
          /\ CreditOf(db', ret'.args.user_name) = ret'.out.credit ]_vars

\* add_credit(5, "default") on a fresh store returned 5, and add_credit(3,
\* "default") then returned 8.
C7_Witness ==
    /\ ReturnedOk(ret, "add_credit")
    /\ ret.args = [amount |-> PyNum(3), user_name |-> "default"]
    /\ ret.out.credit = 8
    /\ db.users = {[id |-> 1, name |-> "default", credit |-> 8]}

\* C8: init_db on any store leaves the expenses, the id sequence and every
\* user row with its credit as they are, and leaves exactly one "default"
\* row: the one there was, or, when there was none, a new one with credit 0.
C8_InitDbIdempotent ==
    [][ Called(ret', "init_db") =>
          /\ db'.expenses = db.expenses
          /\ db'.seq = db.seq
          /\ Cardinality(UserRows(db', "default")) = 1
          /\ IF UserRows(db, "default") # {}
             THEN db'.users = db.users
             ELSE /\ CreditOf(db', "default") = 0
                  /\ db'.users \ UserRows(db', "default") = db.users ]_vars

C8_Witness ==
    /\ Called(ret, "init_db")
    /\ CreditOf(db, "default") > 0
    /\ CreditOf(db, "u") > 0
    /\ db.expenses # {}

\* C9: add_credit with an unparseable amount returns status error and leaves
\* the store as it was; no row appears for a user name not seen before.
C9_BadAmountNoMutation ==
    [][ (Called(ret', "add_credit") /\ ret'.args.amount = BadAmount) =>
          /\ ret'.out.status = "error"
          /\ db' = db ]_vars

C9_Witness ==
    /\ Called(ret, "add_credit")
    /\ ret.args = [amount |-> BadAmount, user_name |-> "u"]
    /\ ret.out.status = "error"
    /\ UserRows(db, "u") = {}
    /\ CreditOf(db, "default") > 0

\* C10: add_expense and edit_expense with an unparseable amount return status
\* error and leave the store as it was: no row inserted or changed, no id used.
C10_BadAmountNoWrite ==
    [][ ((Called(ret', "add_expense") \/ Called(ret', "edit_expense"))
            /\ ret'.args.amount = BadAmount) =>
          /\ ret'.out.status = "error"
          /\ db' = db
          /\ hist' = hist ]_vars

C10_Witness ==
    /\ Called(ret, "edit_expense")
    /\ ret.args.amount = BadAmount
    /\ ret.out.status = "error"
    /\ ret.args.id \in Ids(db)
    /\ db.seq = 1

\* C11: list_expenses(start_date, end_date) returns status ok with exactly the
\* rows of the table whose date d has start_date <= d <= end_date as strings,
\* each once (none when start_date > end_date), by date descending and, among
\* equal dates, by id descending.
C11_ListExactOrdered ==
    Called(ret, "list_expenses") =>
        LET l == ret.out.expenses
            inRange == {e \in db.expenses : /\ TextLeq(ret.args.start_date, e.date)
                                            /\ TextLeq(e.date, ret.args.end_date)}
        IN  /\ ret.out.status = "ok"
            /\ {l[i] : i \in 1..Len(l)} = inRange
            /\ Len(l) = Cardinality(inRange)
            /\ TextLt(ret.args.end_date, ret.args.start_date) => l = <<>>
            /\ \A i, j \in 1..Len(l) :
                  i < j => \/ TextLt(l[j].date, l[i].date)
                           \/ (l[i].date = l[j].date /\ l[i].id > l[j].id)

\* Two rows of one date were listed, the later id first.
C11_Witness ==
    /\ Called(ret, "list_expenses")
    /\ Len(ret.out.expenses) = 2
    /\ ret.out.expenses[1].date = ret.out.expenses[2].date
    /\ ret.out.expenses[1].id = 2

\* C12 as stated: when summarize is given a category (anything but the default
\* None, the empty string included), every group it returns has that category,
\* and the groups come by non-increasing total_amount.
C12_FilterExactCategory ==
    (Called(ret, "summarize") /\ ret.args.category # None) =>
        LET s == ret.out.summary
        IN  /\ \A i \in 1..Len(s) : s[i].category = ret.args.category
            /\ \A i, j \in 1..Len(s) : i < j => s[i].total_amount >= s[j].total_amount

\* The handler a call of SpecTxn runs (add_credit calls carry no op field).
OpOf(c) == IF "op" \in DOMAIN c THEN c.op ELSE "add_credit"

Mutating(c) == OpOf(c) \in {"add_expense", "edit_expense", "delete_expense", "add_credit"}

\* The committed database after the whole of call c on database d, as the
\* handler run alone leaves it.
WholeEffect(d, c) ==
    CASE OpOf(c) = "add_credit" -> AddCreditCall(d, c.amount, c.user_name).db
      [] OpOf(c) = "add_expense" ->
            AddExpenseCall(d, c.date, c.amount, c.category, c.subcategory, c.note).db
      [] OpOf(c) = "edit_expense" ->
            EditExpenseCall(d, c.id, c.date, c.amount, c.category, c.subcategory, c.note).db
      [] OpOf(c) = "delete_expense" -> DeleteExpenseCall(d, c.id).db
      [] OTHER -> d

\* The step ends connection p's call before its commit went through: the call
\* is interrupted, or returns an error from a statement or from the commit.
EndsUncommitted(p) ==
    \/ pc'[p] = "cancelled" /\ pc[p] # "cancelled"
    \/ /\ pc'[p] = "done"
       /\ pc[p] \in InFlight
       /\ res'[p].status = "error"

\* C13: a step that ends a call of add_expense, edit_expense, delete_expense
\* or add_credit before its commit went through (an interruption, or an error
\* of a statement or of the commit) leaves the committed database as it was;
\* every step of such a call leaves the committed database unchanged or puts
\* the whole effect of the call in its place; and the database a SELECT of
\* list_expenses or summarize reads is the committed one, never a writer's
\* open transaction.
C13_AllOrNothing ==
    [][ /\ \A p \in Procs :
              (pc[p] # "idle" /\ pc'[p] # pc[p] /\ Mutating(call[p])) =>
                  /\ EndsUncommitted(p) => db' = db
                  /\ db' = db \/ db' = WholeEffect(db, call[p])
        /\ \A q \in Procs : (pc[q] = "execute" /\ pc'[q] = "fetch") => tx'[q] = db ]_vars

\* add_credit("1x", "u") failed between its insert-if-absent and its
\* increment, the store has no row "u", and a list_expenses call finished.
C13_Witness ==
    /\ \E p \in Procs :
          /\ pc[p] = "done"
          /\ call[p] = [amount |-> BadAmount, user_name |-> "u"]
          /\ res[p].status = "error"
    /\ UserRows(db, "u") = {}
    /\ \E q \in Procs :
          /\ pc[q] = "done"
          /\ OpOf(call[q]) = "list_expenses"
          /\ res[q].status = "ok"

\* The result a finished list_expenses or summarize call c gives on database d.
IsResultOn(r, c, d) ==
    IF OpOf(c) = "list_expenses"
    THEN r = ListExpensesCall(d, c.start_date, c.end_date)
    ELSE /\ r.status = "ok"
         /\ r.summary \in SummaryOrders(SummaryRows(d, c.start_date, c.end_date, c.category))

\* C14 as stated: the SELECT of every list_expenses or summarize call begins
\* on the database as committed at that moment, and the result the call
\* returns is the result on that one database, whatever writers do meanwhile.
C14_EveryReadOneSnapshot ==
    [][ \A p \in Procs :
          /\ (pc[p] = "execute" /\ pc'[p] = "fetch") => tx'[p] = db
          /\ (pc[p] \in {"execute", "fetch"} /\ pc'[p] = "done") =>
                IsResultOn(res'[p], call[p], tx[p]) ]_vars

\* C14, amended: the same of every call that returns status ok; a call whose
\* SELECT cannot get its read lock before the timeout returns the error
\* "database is locked" and no rows.
C14_OkReadOneSnapshot ==
    [][ \A p \in Procs :
          /\ (pc[p] = "execute" /\ pc'[p] = "fetch") => tx'[p] = db
          /\ (pc[p] \in {"execute", "fetch"} /\ pc'[p] = "done") =>
                \/ IsResultOn(res'[p], call[p], tx[p])
                \/ pc[p] = "execute" /\ res'[p] = Error("database is locked") ]_vars

\* A list_expenses cursor is open on the committed rows while another
\* connection waits to commit a change of them.
C14_Witness ==
    \E p, q \in Procs :
        /\ pc[p] = "fetch"
        /\ OpOf(call[p]) = "list_expenses"
        /\ row[p] # <<>>
        /\ tx[p] = db
        /\ pc[q] = "ecommit"
        /\ tx[q].expenses # db.expenses

\* C15: every call of the six tools that is not interrupted comes to its
\* return, whatever its input and whatever statement or commit fails, and
\* what it returns has status "ok", or status "error" with an error field.
C15_AlwaysReturnsStatus ==
    /\ [](\A p \in Procs :
            pc[p] = "done" =>
                \/ res[p].status = "ok"
                \/ res[p].status = "error" /\ "error" \in DOMAIN res[p])
    /\ \A p \in Procs : (pc[p] # "idle") ~> (pc[p] \in {"done", "cancelled"})

\* All three calls returned: a reader got "database is locked" while a
\* writer waited to commit, the reader it waited for got its rows, and the
\* writer returned ok.
C15_Witness ==
    /\ \A p \in Procs : pc[p] = "done"
    /\ \E p \in Procs :
          OpOf(call[p]) \in {"list_expenses", "summarize"}
              /\ res[p] = Error("database is locked")
    /\ \E p \in Procs :
          OpOf(call[p]) \in {"add_expense", "edit_expense"} /\ res[p].status = "ok"
    /\ \E p \in Procs :
          OpOf(call[p]) \in {"list_expenses", "summarize"} /\ res[p].status = "ok"

NotFound == Error("ID not found")

\* C16: edit_expense and delete_expense return the error "ID not found"
\* exactly when the call ran to its return and its UPDATE or DELETE matched no
\* row, which is exactly when no row had the id as the statement ran; a call
\* that ends on an unparseable amount, a failed statement, a lock timeout or
\* a failed commit returns status error with another message.
C16_NotFoundDistinct ==
    [][ \A p \in Procs :
          (pc[p] # "idle" /\ OpOf(call[p]) \in {"edit_expense", "delete_expense"}) =>
              /\ (pc[p] = "write" /\ pc'[p] = "ecommit") =>
                    (row'[p][1] = 0 <=> call[p].id \notin Ids(db))
              /\ (pc[p] = "ereturn" /\ pc'[p] = "done") =>
                    (res'[p] = NotFound <=> row[p][1] = 0)
              /\ (pc[p] \in {"write", "ecommit"} /\ pc'[p] = "done") =>
                    /\ res'[p].status = "error"
                    /\ res'[p] # NotFound ]_vars

\* An edit_expense of id 1 returned "ID not found" after a delete_expense of
\* id 1 returned ok, and an edit_expense of id 1 failed on its amount.
C16_Witness ==
    /\ \E p \in Procs :
          pc[p] = "done" /\ OpOf(call[p]) = "edit_expense" /\ res[p] = NotFound
    /\ \E p \in Procs :
          pc[p] = "done" /\ OpOf(call[p]) = "delete_expense" /\ res[p] = [status |-> "ok"]
    /\ \E p \in Procs :
          /\ pc[p] = "done"
          /\ OpOf(call[p]) = "edit_expense"
          /\ res[p].status = "error"
          /\ res[p] # NotFound

\* C17 as stated: once init_db has run, the users table holds a row named
\* "default" and at most one row for each name, and each step keeps every
\* user row there was and adds at most one, only in init_db (the row
\* "default") or in an add_credit call whose user_name had no row.
C17_OneRowPerName ==
    [][ Serving' =>
          /\ UserRows(db', "default") # {}
          /\ \A u \in db'.users : Cardinality(UserRows(db', u.name)) = 1
          /\ \A u \in db.users : \E v \in db'.users : v.id = u.id /\ v.name = u.name
          /\ \A v \in db'.users :
                (\A u \in db.users : u.id # v.id) =>
                    \/ Called(ret', "init_db") /\ v.name = "default"
                    \/ /\ Called(ret', "add_credit")
                       /\ v.name = ret'.args.user_name
                       /\ UserRows(db, v.name) = {} ]_vars

\* The add_credit calls for user name n that returned status ok.
OkCredits(n) ==
    {p \in Procs : /\ pc[p] = "done"
                   /\ OpOf(call[p]) = "add_credit"
                   /\ call[p].user_name = n
                   /\ res[p].status = "ok"}

RECURSIVE SumOfCalls(_)
SumOfCalls(S) ==
    IF S = {} THEN 0
    ELSE LET p == CHOOSE p \in S : TRUE IN float(call[p].amount).v + SumOfCalls(S \ {p})

\* The credit the users table holds under name n.
RECURSIVE SumOfRows(_)
SumOfRows(S) ==
    IF S = {} THEN 0
    ELSE LET u == CHOOSE u \in S : TRUE IN u.credit + SumOfRows(S \ {u})

StoredCredit(d, n) == SumOfRows(UserRows(d, n))

NoCreditInProgress ==
    \A p \in Procs :
        (pc[p] # "idle" /\ OpOf(call[p]) = "add_credit") => pc[p] \in {"done", "cancelled"}

\* C18: whenever no add_credit call is in progress, the credit stored for each
\* user name is the sum of the amounts of the add_credit calls for that name
\* that returned status ok (the store began with every balance 0); calls that
\* returned status error, or were interrupted, added nothing.
C18_CreditIsSumOfOkCalls ==
    NoCreditInProgress =>
        \A n \in {"default", "u", None} : StoredCredit(db, n) = SumOfCalls(OkCredits(n))

\* Two add_credit(10, "u") calls returned ok and a third returned "database is
\* locked": the balance is 20.
C18_Witness ==
    /\ NoCreditInProgress
    /\ Cardinality(OkCredits("u")) = 2
    /\ \E p \in Procs :
          /\ pc[p] = "done"
          /\ call[p] = [amount |-> PyNum(10), user_name |-> "u"]
          /\ res[p] = Error("database is locked")
    /\ StoredCredit(db, "u") = 20

\* The add_expense calls that returned status ok.
OkAdds(pcs, rs) ==
    {p \in Procs : pcs[p] = "done" /\ OpOf(call[p]) = "add_expense" /\ rs[p].status = "ok"}

\* The expenses row add_expense call c stands for under id.
RowOfCall(id, c) ==
    [id |-> id, date |-> c.date, amount |-> float(c.amount).v, category |-> c.category,
     subcategory |-> c.subcategory, note |-> c.note]

\* C19: the commit of an add_expense call stores, under an id no row had, one
\* row with the call's own values; the call returns that id; and the ids
\* returned by add_expense calls on separate connections differ pairwise.
C19_ConcurrentAddsDistinctIds ==
    [][ /\ \A p \in Procs :
              (pc[p] # "idle" /\ OpOf(call[p]) = "add_expense") =>
                  /\ (pc[p] = "ecommit" /\ pc'[p] = "ereturn") =>
                        /\ row[p][1] \notin Ids(db)
                        /\ Rows(db', row[p][1]) = {RowOfCall(row[p][1], call[p])}
                        /\ db'.expenses \ Rows(db', row[p][1]) = db.expenses
                  /\ (pc[p] = "ereturn" /\ pc'[p] = "done") =>
                        res'[p] = [status |-> "ok", id |-> row[p][1]]
        /\ \A p, q \in OkAdds(pc', res') : p # q => res'[p].id # res'[q].id ]_vars

\* Two add_expense calls with different values overlap: one has committed its
\* row and not yet returned, the other has inserted its row under another id
\* and not yet committed.
C19_Witness ==
    \E p, q \in Procs :
        /\ OpOf(call[p]) = "add_expense" /\ pc[p] = "ereturn"
        /\ OpOf(call[q]) = "add_expense" /\ pc[q] = "ecommit"
        /\ call[p] # call[q]
        /\ row[p][1] # row[q][1]
        /\ RowOfCall(row[p][1], call[p]) \in db.expenses
        /\ RowOfCall(row[q][1], call[q]) \in tx[q].expenses

\* C20: a step of a list_expenses or summarize call leaves the database as it
\* is; a step of an add_expense, edit_expense or delete_expense call leaves
\* the users table as it is; a step of an add_credit call leaves the expenses
\* table, its id sequence and the rows of every other user name as they are.
C20_FrameAcrossTables ==
    [][ \A p \in Procs :
          pc'[p] # pc[p] =>
              CASE OpOf(call'[p]) \in {"list_expenses", "summarize"} -> db' = db
                [] OpOf(call'[p]) \in {"add_expense", "edit_expense", "delete_expense"} ->
                      db'.users = db.users
                [] OTHER ->
                      /\ db'.expenses = db.expenses
                      /\ db'.seq = db.seq
                      /\ {u \in db'.users : u.name # call'[p].user_name}
                            = {u \in db.users : u.name # call'[p].user_name} ]_vars

\* An add_credit(10, "u"), a delete_expense and a list_expenses call have all
\* returned ok: "u" holds 10, "default" still 0, and one expense is left.
C20_Witness ==
    /\ \A p \in Procs : pc[p] = "done" /\ res[p].status = "ok"
    /\ \E p \in Procs : OpOf(call[p]) = "add_credit"
    /\ \E p \in Procs : OpOf(call[p]) = "delete_expense"
    /\ \E p \in Procs : OpOf(call[p]) = "list_expenses"
    /\ StoredCredit(db, "u") = 10
    /\ UserRows(db, "default") = {[id |-> 1, name |-> "default", credit |-> 0]}
    /\ Cardinality(db.expenses) = 1

====
